---------------------------- MODULE Spec2Model ----------------------------
(***************************************************************************)
(* A model of the Workers-KV writer of cdnjs-go (src/kv/aggregate.go):     *)
(* the bulk writer encodeAndWriteKVBulk, the sorted-list insertion         *)
(* insertToSortedListIfNotPresent and the version ingestion updateKV       *)
(* (updateFiles, updateVersion, updatePackage, updateRoot).                *)
(*                                                                         *)
(* Go strings and []byte are sequences of byte values (0..255); strings    *)
(* compare bytewise, as Go's < on strings does.  A Go slice is a record    *)
(* [arr, len]: arr is its backing array (Len(arr) is the capacity) and the *)
(* slice shows arr[1..len].                                                *)
(***************************************************************************)
EXTENDS Integers, Sequences, FiniteSets, TLC

VARIABLES
  cfg,         \* the two size ceilings: util.MaxFileSize and maxBulkPayload
  store,       \* the Workers KV namespace: key -> value bytes
  pc,          \* per process: where it is in updateKV / encodeAndWriteKVBulk
  job,         \* per process: the arguments of updateKV (pkg, version, files)
  kvs,         \* per process: the []*KV built so far / handed to the bulk writer
  bulkWrites,  \* per process: the batches built by the packing loop
  sent,        \* per process: the outcome of each WriteWorkersKVBulk call made
  readLog,     \* per process: the outcome of each readKV call of this ingestion
  sorted,      \* the slice held by the caller of insertToSortedListIfNotPresent
  retained,    \* the slice value the caller passed to the last insert call
  arg,         \* the string passed to the last insert call
  before,      \* what `retained` showed when the last insert call was made
  steps,       \* number of top-level calls started (bounds the model)
  aggStore,    \* the aggregated-metadata namespace: package name -> bytes
  agg,         \* per process: the state of its UpdateAggregatedMetadata call
  pool,        \* the worker pool of `generate`: channels, workers, collector
  cli          \* the run of a command-line subcommand and what it printed

\* the variables of the KV writer
kvVars == <<cfg, store, pc, job, kvs, bulkWrites, sent, readLog,
            sorted, retained, arg, before, steps>>
\* the variables of the aggregator, of the worker pool and of the subcommands
aggVars == <<aggStore, agg>>
poolVars == <<pool>>
cliVars == <<cli>>

vars == <<kvVars, aggVars, poolVars, cliVars>>

----------------------------------------------------------------------------
(* Bounds of the model.                                                    *)

\* longest input handed to encodeAndWriteKVBulk in SpecBulk
MaxItems == 4
\* largest spare capacity of a slice's backing array
MaxSpare == 2
\* number of insert calls in one run of SpecInsert
MaxInserts == 3
\* number of version ingestions in one run of Spec
MaxIngest == 3

Procs == {1, 2}

----------------------------------------------------------------------------
(* Bytes and strings.                                                      *)

\* n bytes of file content (the content varies with the position)
Bytes(n) == [i \in 1..n |-> (i * 83 + n) % 256]

\* Go's s < t on strings: bytewise lexicographic
RECURSIVE StrLessFrom(_, _, _)
StrLessFrom(s, t, i) ==
  IF i > Len(t) THEN FALSE
  ELSE IF i > Len(s) THEN TRUE
  ELSE IF s[i] # t[i] THEN s[i] < t[i]
  ELSE StrLessFrom(s, t, i + 1)

StrLess(s, t) == StrLessFrom(s, t, 1)

\* the 64 characters of base64.StdEncoding, by 6-bit value
StdAlphabet(v) ==
  IF v < 26 THEN 65 + v
  ELSE IF v < 52 THEN 97 + (v - 26)
  ELSE IF v < 62 THEN 48 + (v - 52)
  ELSE IF v = 62 THEN 43 ELSE 47

\* the 6-bit value of a base64 character (0 for the padding '=')
StdValue(c) ==
  IF 65 <= c /\ c <= 90 THEN c - 65
  ELSE IF 97 <= c /\ c <= 122 THEN c - 97 + 26
  ELSE IF 48 <= c /\ c <= 57 THEN c - 48 + 52
  ELSE IF c = 43 THEN 62
  ELSE IF c = 47 THEN 63 ELSE 0

PadChar == 61

\* base64.StdEncoding.EncodeToString: 3 bytes -> 4 characters, '=' padded
encodeToBase64(bytes) ==
  LET n == Len(bytes)
      at(i) == IF i <= n THEN bytes[i] ELSE 0
  IN [j \in 1..(4 * ((n + 2) \div 3)) |->
        LET g == (j - 1) \div 4
            k == (j - 1) % 4
            b0 == at(3 * g + 1)
            b1 == at(3 * g + 2)
            b2 == at(3 * g + 3)
        IN CASE k = 0 -> StdAlphabet(b0 \div 4)
             [] k = 1 -> StdAlphabet((b0 % 4) * 16 + (b1 \div 16))
             [] k = 2 -> IF 3 * g + 2 <= n
                         THEN StdAlphabet((b1 % 16) * 4 + (b2 \div 64))
                         ELSE PadChar
             [] OTHER -> IF 3 * g + 3 <= n
                         THEN StdAlphabet(b2 % 64)
                         ELSE PadChar]

\* what the store does with a pair sent with Base64: true
decodeBase64(str) ==
  LET m == Len(str)
      pad == IF m = 0 THEN 0
             ELSE IF str[m - 1] = PadChar THEN 2
             ELSE IF str[m] = PadChar THEN 1 ELSE 0
  IN [i \in 1..(3 * (m \div 4) - pad) |->
        LET g == (i - 1) \div 3
            k == (i - 1) % 3
            c0 == StdValue(str[4 * g + 1])
            c1 == StdValue(str[4 * g + 2])
            c2 == StdValue(str[4 * g + 3])
            c3 == StdValue(str[4 * g + 4])
        IN CASE k = 0 -> c0 * 4 + (c1 \div 16)
             [] k = 1 -> (c1 % 16) * 16 + (c2 \div 4)
             [] OTHER -> (c2 % 4) * 64 + c3]


----------------------------------------------------------------------------
(* The store (Workers KV), an external collaborator.                       *)

EmptyStore == [k \in {} |-> <<>>]

Put(st, k, v) == [x \in (DOMAIN st) \cup {k} |-> IF x = k THEN v ELSE st[x]]

\* api.WriteWorkersKVBulk on success: every pair is stored, in order; a pair
\* sent with Base64 set is decoded by the store
RECURSIVE WriteWorkersKVBulk(_, _)
WriteWorkersKVBulk(st, b) ==
  IF b = <<>> THEN st
  ELSE WriteWorkersKVBulk(
         Put(st, Head(b).Key,
             IF Head(b).Base64 THEN decodeBase64(Head(b).Value) ELSE Head(b).Value),
         Tail(b))

----------------------------------------------------------------------------
(* encodeAndWriteKVBulk.                                                   *)

KV(key, value) == [Key |-> key, Value |-> value]

\* a nil slice: no backing array
NoSlice == [arr |-> <<>>, len |-> 0]

\* the per-item check: the size of the raw value against util.MaxFileSize
OversizedWrongCeiling(c, kv) == Len(kv.Value) > c.maxBulkPayload
Oversized(c, kv) == Len(kv.Value) > c.MaxFileSize

\* the split test of the packing loop
SplitNeededIgnoresItem(c, totalSize, encodedSize) == totalSize > c.maxBulkPayload
SplitNeededWrongCeiling(c, totalSize, encodedSize) ==
  totalSize + encodedSize > c.MaxFileSize
SplitNeeded(c, totalSize, encodedSize) ==
  totalSize + encodedSize > c.maxBulkPayload

\* the pair appended for an item
WorkersKVPair(kv) ==
  [Key |-> kv.Key, Value |-> encodeToBase64(kv.Value), Base64 |-> TRUE]

\* the current batch after the item is handled: emptied first on a split
AddToBulkDropsOnSplit(split, bulkWrite, pair) ==
  IF split THEN <<>> ELSE Append(bulkWrite, pair)
AddToBulk(split, bulkWrite, pair) ==
  Append(IF split THEN <<>> ELSE bulkWrite, pair)

\* the packing loop from item i on; the result tells whether the loop
\* panicked ("oversized file") and, if not, the batches built
RECURSIVE encodeLoop(_, _, _, _, _, _)
encodeLoop(c, items, i, bws, bulkWrite, totalSize) ==
  IF i > Len(items)
  THEN [panic |-> FALSE, bulkWrites |-> Append(bws, bulkWrite)]
  ELSE IF Oversized(c, items[i])
  THEN [panic |-> TRUE, bulkWrites |-> <<>>]
  ELSE LET pair == WorkersKVPair(items[i])
           encodedSize == Len(pair.Value)
           split == SplitNeeded(c, totalSize, encodedSize)
       IN encodeLoop(c, items, i + 1,
                     IF split THEN Append(bws, bulkWrite) ELSE bws,
                     AddToBulk(split, bulkWrite, pair),
                     (IF split THEN 0 ELSE totalSize) + encodedSize)

\* the batch the write loop submits next: the batches go out in the order built
NextBulk(built, made) == Len(made) + 1

\* where the write loop is after a call: util.Check(err) panics on an error,
\* panic(r) on a response without Success
AfterWriteGoesOn(result, last) == IF last THEN "done" ELSE "write"
AfterWrite(result, last) ==
  IF result # "ok" THEN "panicked" ELSE IF last THEN "done" ELSE "write"

\* the other components at rest: no aggregated document, no call running
AggIdle ==
  /\ aggStore = EmptyStore
  /\ agg = [p \in Procs |-> [pc |-> "idle"]]

\* no `generate` run
PoolIdle == pool = [pc |-> "idle"]

\* no subcommand run
CliIdle == cli = [cmd |-> "none"]

\* lines 197-220: the packing loop, run at once (it touches no shared state)
Encode(p) ==
  /\ pc[p] = "encode"
  /\ LET r == encodeLoop(cfg, kvs[p], 1, <<>>, <<>>, 0)
     IN /\ pc' = [pc EXCEPT ![p] = IF r.panic THEN "panicked" ELSE "write"]
        /\ bulkWrites' = [bulkWrites EXCEPT ![p] = r.bulkWrites]
  \* the slices of updatePackage and updateRoot are out of scope by now
  /\ sorted' = NoSlice
  /\ retained' = NoSlice
  /\ arg' = <<>>
  /\ before' = <<>>
  /\ UNCHANGED <<cfg, store, job, kvs, sent, readLog, steps>>
  /\ UNCHANGED <<aggVars, poolVars, cliVars>>

\* lines 221-228: one api.WriteWorkersKVBulk call and the check of its result
WriteBulk(p) ==
  /\ pc[p] = "write"
  /\ LET k == NextBulk(bulkWrites[p], sent[p])
         b == bulkWrites[p][k]
     IN \E result \in {"ok", "error", "unsuccessful"} :
          /\ sent' = [sent EXCEPT ![p] = Append(@, [bulk |-> b, result |-> result])]
          /\ store' = IF result = "ok" THEN WriteWorkersKVBulk(store, b) ELSE store
          /\ pc' = [pc EXCEPT ![p] =
                      AfterWrite(result, Len(sent[p]) + 1 = Len(bulkWrites[p]))]
  /\ UNCHANGED <<cfg, job, kvs, bulkWrites, readLog,
                 sorted, retained, arg, before, steps>>
  /\ UNCHANGED <<aggVars, poolVars, cliVars>>

----------------------------------------------------------------------------
(* SpecBulk: one call of encodeAndWriteKVBulk on an arbitrary input.       *)

KeyA == <<97>>
KeyB == <<98>>

\* the ceilings of the spec's scenario (section 8)
ScenarioCfg == [MaxFileSize |-> 1000, maxBulkPayload |-> 2500]
\* small ceilings: a value of 6 bytes encodes to 8 characters
SmallCfg == [MaxFileSize |-> 6, maxBulkPayload |-> 12]
\* ceilings one apart: a value of 9 bytes encodes to 12 characters
TightCfg == [MaxFileSize |-> 9, maxBulkPayload |-> 10]

Configs == {ScenarioCfg, SmallCfg, TightCfg}

\* the items offered under each configuration (raw sizes; 675 bytes encode
\* to 900 characters, 825 to 1100)
Universe(c) ==
  IF c = ScenarioCfg
  THEN {KV(KeyA, Bytes(675)), KV(KeyA, Bytes(825)), KV(KeyB, Bytes(1001))}
  ELSE IF c = SmallCfg
  THEN {KV(KeyA, Bytes(1)), KV(KeyB, Bytes(3)), KV(KeyA, Bytes(4)),
        KV(KeyB, Bytes(6)), KV(KeyA, Bytes(7))}
  ELSE {KV(KeyA, Bytes(3)), KV(KeyB, Bytes(9)), KV(KeyA, Bytes(10))}

Inputs(c) == UNION {[1..n -> Universe(c)] : n \in 0..MaxItems}

InitBulk ==
  /\ cfg \in Configs
  /\ store = EmptyStore
  /\ pc = [p \in Procs |-> IF p = 1 THEN "encode" ELSE "idle"]
  /\ job = [p \in Procs |-> <<>>]
  /\ \E in \in Inputs(cfg) : kvs = [p \in Procs |-> IF p = 1 THEN in ELSE <<>>]
  /\ bulkWrites = [p \in Procs |-> <<>>]
  /\ sent = [p \in Procs |-> <<>>]
  /\ readLog = [p \in Procs |-> <<>>]
  /\ sorted = NoSlice
  /\ retained = NoSlice
  /\ arg = <<>>
  /\ before = <<>>
  /\ steps = 0
  /\ AggIdle /\ PoolIdle /\ CliIdle

NextBulkCall == Encode(1) \/ WriteBulk(1)

SpecBulk == InitBulk /\ [][NextBulkCall]_vars

----------------------------------------------------------------------------
(* Properties of encodeAndWriteKVBulk (SpecBulk).                          *)

RECURSIVE EncodedTotal(_)
EncodedTotal(b) == IF b = <<>> THEN 0 ELSE Len(Head(b).Value) + EncodedTotal(Tail(b))

RECURSIVE Flatten(_)
Flatten(bs) == IF bs = <<>> THEN <<>> ELSE Head(bs) \o Flatten(Tail(bs))

EncodedSize(kv) == 4 * ((Len(kv.Value) + 2) \div 3)

\* the packing loop has run and did not panic
Built == pc[1] \in {"write", "done"} \/ (pc[1] = "panicked" /\ sent[1] # <<>>)

EncodedWithinCeiling ==
  /\ cfg.MaxFileSize < cfg.maxBulkPayload
  /\ \A i \in 1..Len(kvs[1]) : EncodedSize(kvs[1][i]) <= cfg.MaxFileSize

AnyRawOversized == \E i \in 1..Len(kvs[1]) : Len(kvs[1][i].Value) > cfg.MaxFileSize

AnyEncodedOversized ==
  \E i \in 1..Len(kvs[1]) : EncodedSize(kvs[1][i]) > cfg.MaxFileSize

NoWriteAttempted ==
  /\ pc[1] \in {"encode", "panicked"}
  /\ sent[1] = <<>>
  /\ store = EmptyStore

\* C1: when every item's encoded size is at most the per-item ceiling (itself
\* below the aggregate ceiling), every batch built, and so every batch
\* submitted, has an encoded total of at most maxBulkPayload.
C1_BatchWithinCeiling ==
  EncodedWithinCeiling =>
    /\ \A k \in 1..Len(bulkWrites[1]) :
         EncodedTotal(bulkWrites[1][k]) <= cfg.maxBulkPayload
    /\ \A k \in 1..Len(sent[1]) :
         EncodedTotal(sent[1][k].bulk) <= cfg.maxBulkPayload

C1_Witness ==
  /\ EncodedWithinCeiling
  /\ pc[1] = "done"
  /\ Len(sent[1]) >= 2
  /\ EncodedTotal(sent[1][1].bulk) + 4 > cfg.maxBulkPayload

\* C2: for an accepted input, the batches concatenated in submission order
\* are the input items in their order: pair i carries item i's key and a
\* value the store decodes to item i's bytes.
C2_ConcatIsInput ==
  Built =>
    LET all == Flatten(bulkWrites[1])
    IN /\ Len(all) = Len(kvs[1])
       /\ \A i \in 1..Len(all) :
            /\ all[i].Key = kvs[1][i].Key
            /\ all[i].Base64
            /\ decodeBase64(all[i].Value) = kvs[1][i].Value

C2_Witness ==
  /\ pc[1] = "done"
  /\ Len(bulkWrites[1]) >= 2
  /\ Len(kvs[1]) >= 3
  /\ \E i, j \in 1..Len(kvs[1]) : kvs[1][i] # kvs[1][j]

\* C3 as claimed: an item whose ENCODED size is above the per-item ceiling
\* makes the call fail before any bulk write.
C3_EncodedOversizeRejected == AnyEncodedOversized => NoWriteAttempted

\* C3 as the code has it: an item whose RAW size is above util.MaxFileSize
\* makes the call panic in the packing loop, before any bulk write call: no
\* batch is submitted, not even one of earlier valid items, and the call
\* never goes on without the item.
C3_RawOversizeRejected == AnyRawOversized => NoWriteAttempted

C3_Witness ==
  /\ pc[1] = "panicked"
  /\ Len(kvs[1]) >= 3
  /\ ~Oversized(cfg, kvs[1][1])
  /\ ~Oversized(cfg, kvs[1][2])
  /\ Oversized(cfg, kvs[1][3])

ScenarioInput == [i \in 1..4 |-> KV(KeyA, Bytes(675))]

\* C4: a batch is closed only when the next item would push the encoded total
\* above maxBulkPayload: each closed batch's total plus the encoded size of
\* the next batch's first item exceeds the ceiling.  With ceilings 1000 and
\* 2500, four items of encoded size 900 give [[900,900],[900,900]].
C4_GreedyPacking ==
  Built =>
    /\ \A k \in 1..(Len(bulkWrites[1]) - 1) :
         /\ bulkWrites[1][k + 1] # <<>>
         /\ EncodedTotal(bulkWrites[1][k]) + Len(bulkWrites[1][k + 1][1].Value)
              > cfg.maxBulkPayload
    /\ (cfg = ScenarioCfg /\ kvs[1] = ScenarioInput) =>
         /\ Len(bulkWrites[1]) = 2
         /\ \A k \in 1..2 :
              /\ Len(bulkWrites[1][k]) = 2
              /\ \A i \in 1..2 : Len(bulkWrites[1][k][i].Value) = 900

C4_Witness ==
  /\ cfg = ScenarioCfg
  /\ kvs[1] = ScenarioInput
  /\ pc[1] = "done"

\* C5: with the per-item ceiling below the aggregate ceiling, the split
\* branch is never taken on an empty batch (no batch but the last is empty)
\* and the item that starts a batch never exceeds maxBulkPayload by itself.
C5_SingleItemFits ==
  (Built /\ cfg.MaxFileSize < cfg.maxBulkPayload) =>
    /\ \A k \in 1..(Len(bulkWrites[1]) - 1) : bulkWrites[1][k] # <<>>
    /\ \A k \in 1..Len(bulkWrites[1]) :
         bulkWrites[1][k] # <<>> =>
           Len(bulkWrites[1][k][1].Value) <= cfg.maxBulkPayload

RECURSIVE StoreAfter(_, _)
StoreAfter(st, calls) ==
  IF calls = <<>> THEN st
  ELSE StoreAfter(IF Head(calls).result = "ok"
                  THEN WriteWorkersKVBulk(st, Head(calls).bulk) ELSE st,
                  Tail(calls))

\* C6: the batches are submitted one at a time in the order built; a failed
\* submission is the last one of the call, and what earlier submissions
\* wrote stays in the store.
C6_SequentialAbortOnFailure ==
  /\ Len(sent[1]) <= Len(bulkWrites[1])
  /\ \A k \in 1..Len(sent[1]) :
       /\ sent[1][k].bulk = bulkWrites[1][k]
       /\ k < Len(sent[1]) => sent[1][k].result = "ok"
  /\ (sent[1] # <<>> /\ sent[1][Len(sent[1])].result # "ok") => pc[1] = "panicked"
  /\ pc[1] = "done" => Len(sent[1]) = Len(bulkWrites[1])
  /\ store = StoreAfter(EmptyStore, sent[1])

C6_Witness ==
  /\ pc[1] = "panicked"
  /\ Len(sent[1]) = 2
  /\ Len(bulkWrites[1]) >= 3
  /\ sent[1][1].bulk # sent[1][2].bulk
  /\ DOMAIN store # {}

----------------------------------------------------------------------------
(* Go slices of strings, and insertToSortedListIfNotPresent.               *)

\* what a slice shows
View(sl) == SubSeq(sl.arr, 1, sl.len)

\* a slice showing `elems` over a backing array with `spare` unused slots
\* (unused slots hold the zero string)
MakeSlice(elems, spare) ==
  [arr |-> elems \o [i \in 1..spare |-> <<>>], len |-> Len(elems)]

\* capacity of the array Go allocates when append outgrows the old one:
\* doubled, or what is needed if that is more (small slices; size classes
\* are left out)
GrowCap(cap, needed) == IF 2 * cap >= needed THEN 2 * cap ELSE needed

\* Go's append(sl, elems...): in place when the capacity allows, writing
\* into the backing array sl shares with every other slice of it; else into
\* a new array.  `shared` tells whether the result lives in sl's array.
GoAppend(sl, elems) ==
  LET n == sl.len + Len(elems)
  IN IF n <= Len(sl.arr)
     THEN [slice |-> [arr |-> [k \in 1..Len(sl.arr) |->
                                 IF sl.len < k /\ k <= n
                                 THEN elems[k - sl.len] ELSE sl.arr[k]],
                      len |-> n],
           shared |-> TRUE]
     ELSE [slice |-> MakeSlice(View(sl) \o elems, GrowCap(Len(sl.arr), n) - n),
           shared |-> FALSE]

\* sort.SearchStrings: binary search for the smallest index (0-based) in
\* [i, j) whose element is >= x; j if there is none
RECURSIVE Search(_, _, _, _)
Search(a, x, i, j) ==
  IF i >= j THEN i
  ELSE LET h == (i + j) \div 2
       IN IF StrLess(a[h + 1], x) THEN Search(a, x, h + 1, j)
          ELSE Search(a, x, i, h)

SearchStrings(a, x) == Search(a, x, 0, Len(a))

\* insertToSortedListIfNotPresent(sorted, s).  res is the slice returned;
\* arr is the backing array of the argument after the call.
insertAlways(sl, s) ==
  LET i == SearchStrings(View(sl), s)
      out == GoAppend([arr |-> sl.arr, len |-> i],
                      <<s>> \o SubSeq(sl.arr, i + 1, sl.len))
  IN [res |-> out.slice, arr |-> IF out.shared THEN out.slice.arr ELSE sl.arr]
insertAtBack(sl, s) ==
  LET out == GoAppend(sl, <<s>>)
  IN IF \E k \in 1..sl.len : sl.arr[k] = s
     THEN [res |-> sl, arr |-> sl.arr]
     ELSE [res |-> out.slice, arr |-> IF out.shared THEN out.slice.arr ELSE sl.arr]
insertToSortedListIfNotPresent(sl, s) ==
  LET i == SearchStrings(View(sl), s)
  IN IF i = sl.len
     THEN \* insert at back of list
          LET out == GoAppend(sl, <<s>>)
          IN [res |-> out.slice,
              arr |-> IF out.shared THEN out.slice.arr ELSE sl.arr]
     ELSE IF sl.arr[i + 1] = s
     THEN \* already exists in list
          [res |-> sl, arr |-> sl.arr]
     ELSE \* append(sorted[:i], append([]string{s}, sorted[i:]...)...): the
          \* inner append copies s and sorted[i:] into a new array, the outer
          \* one writes them behind sorted[:i]
          LET out == GoAppend([arr |-> sl.arr, len |-> i],
                              <<s>> \o SubSeq(sl.arr, i + 1, sl.len))
          IN [res |-> out.slice,
              arr |-> IF out.shared THEN out.slice.arr ELSE sl.arr]

----------------------------------------------------------------------------
(* SpecInsert: a caller that keeps inserting into a sorted slice, as       *)
(* updateRoot and updatePackage do, and keeps the slice it passed.         *)

Bar == <<98, 97, 114>>
Baz == <<98, 97, 122>>
Fo  == <<102, 111>>
Foo == <<102, 111, 111>>

Names == {Bar, Baz, Fo, Foo}

StrictlyAscending(a) == \A i \in 1..(Len(a) - 1) : StrLess(a[i], a[i + 1])

Elems(a) == {a[i] : i \in 1..Len(a)}

SortedLists ==
  {a \in UNION {[1..n -> Names] : n \in 0..Cardinality(Names)} :
     StrictlyAscending(a)}

\* one call r = insertToSortedListIfNotPresent(sorted, s), the caller
\* keeping both r and the slice it passed
InsertCall(sl, s) ==
  LET r == insertToSortedListIfNotPresent(sl, s)
  IN /\ sorted' = r.res
     /\ retained' = [arr |-> r.arr, len |-> sl.len]
     /\ before' = View(sl)
     /\ arg' = s

InitInsert ==
  /\ cfg = SmallCfg
  /\ store = EmptyStore
  /\ pc = [p \in Procs |-> "idle"]
  /\ job = [p \in Procs |-> <<>>]
  /\ kvs = [p \in Procs |-> <<>>]
  /\ bulkWrites = [p \in Procs |-> <<>>]
  /\ sent = [p \in Procs |-> <<>>]
  /\ readLog = [p \in Procs |-> <<>>]
  /\ \E a \in SortedLists : \E spare \in 0..MaxSpare : sorted = MakeSlice(a, spare)
  /\ retained = NoSlice
  /\ arg = <<>>
  /\ before = <<>>
  /\ steps = 0
  /\ AggIdle /\ PoolIdle /\ CliIdle

Insert ==
  /\ steps < MaxInserts
  /\ \E s \in Names : InsertCall(sorted, s)
  /\ steps' = steps + 1
  /\ UNCHANGED <<cfg, store, pc, job, kvs, bulkWrites, sent, readLog>>
  /\ UNCHANGED <<aggVars, poolVars, cliVars>>

NextInsert == Insert

SpecInsert == InitInsert /\ [][NextInsert]_vars

\* an insert call has been made and its slices are still in scope (the empty
\* string is never inserted)
CallRecorded == arg # <<>>

\* C7: inserting the value just inserted once more gives the same sequence,
\* and the result of an insertion into a sorted duplicate-free sequence is
\* sorted ascending.
C7_InsertIdempotent ==
  CallRecorded =>
    /\ View(insertToSortedListIfNotPresent(sorted, arg).res) = View(sorted)
    /\ \A i \in 1..(sorted.len - 1) : ~StrLess(sorted.arr[i + 1], sorted.arr[i])
    /\ arg \in Elems(View(sorted))

C7_Witness ==
  /\ steps = 1
  /\ arg \notin Elems(before)
  /\ Len(before) >= 2
  /\ StrLess(before[1], arg)
  /\ StrLess(arg, before[Len(before)])

\* C9: the sequence the caller passed in shows after the call what it
\* showed before it.
C9_InputUntouched == CallRecorded => View(retained) = before

----------------------------------------------------------------------------
(* JSON documents (encoding/json on Root, Package and Version).            *)

\* "packages", "versions", "files", "name", "sri": the json tags
TagPackages == <<112, 97, 99, 107, 97, 103, 101, 115>>
TagVersions == <<118, 101, 114, 115, 105, 111, 110, 115>>
TagFiles == <<102, 105, 108, 101, 115>>
TagName == <<110, 97, 109, 101>>
TagSri == <<115, 114, 105>>

\* a JSON string; the names of the model hold no character that JSON escapes
JSONString(str) == <<34>> \o str \o <<34>>

RECURSIVE JoinComma(_)
JoinComma(parts) ==
  IF parts = <<>> THEN <<>>
  ELSE IF Len(parts) = 1 THEN parts[1]
  ELSE parts[1] \o <<44>> \o JoinComma(Tail(parts))

JSONArray(parts) == <<91>> \o JoinComma(parts) \o <<93>>

\* {"tag":value}
JSONObject1(tag, value) == <<123>> \o JSONString(tag) \o <<58>> \o value \o <<125>>

\* json.Marshal of Root{Packages: a} and of Package{Versions: a} (a is
\* never nil where the code marshals it)
MarshalStrings(tag, a) ==
  JSONObject1(tag, JSONArray([i \in 1..Len(a) |-> JSONString(a[i])]))

\* json.Marshal(Version{Files: files})
MarshalVersion(files) ==
  JSONObject1(TagFiles,
    JSONArray([i \in 1..Len(files) |->
      <<123>> \o JSONString(TagName) \o <<58>> \o JSONString(files[i].Name)
        \o <<44>> \o JSONString(TagSri) \o <<58>> \o JSONString(files[i].SRI)
        \o <<125>>]))

\* the strings of the JSON array that starts at position i
RECURSIVE ScanStrings(_, _, _, _, _)
ScanStrings(bytes, i, inString, cur, acc) ==
  IF i > Len(bytes) THEN acc
  ELSE IF bytes[i] = 34
  THEN IF inString
       THEN ScanStrings(bytes, i + 1, FALSE, <<>>, Append(acc, cur))
       ELSE ScanStrings(bytes, i + 1, TRUE, <<>>, acc)
  ELSE IF inString
  THEN ScanStrings(bytes, i + 1, TRUE, Append(cur, bytes[i]), acc)
  ELSE IF bytes[i] = 93 THEN acc
  ELSE ScanStrings(bytes, i + 1, FALSE, cur, acc)

\* json.Unmarshal into Root / Package: the list under the tag, empty when
\* the document is not an object with that tag
UnmarshalStrings(tag, bytes) ==
  LET head == <<123>> \o JSONString(tag) \o <<58>>
  IN IF Len(bytes) > Len(head) /\ SubSeq(bytes, 1, Len(head)) = head
     THEN ScanStrings(bytes, Len(head) + 1, FALSE, <<>>, <<>>)
     ELSE <<>>

----------------------------------------------------------------------------
(* updateKV: the ingestion of one version.                                 *)

rootKey == <<47>>

\* path.Join of two clean, non-empty elements
PathJoin(a, b) == a \o <<47>> \o b

\* sri.CalculateFileSRI: a digest of the file's bytes (here a one-byte
\* checksum, base64 encoded)
RECURSIVE ByteSum(_)
ByteSum(bytes) == IF bytes = <<>> THEN 0 ELSE (Head(bytes) + ByteSum(Tail(bytes))) % 256

CalculateFileSRI(bytes) == encodeToBase64(<<ByteSum(bytes)>>)

\* updateFiles: one KV and one File record per listed file, in listing order
updateFilesKVsNoVersion(pkg, version, listing) ==
  [i \in 1..Len(listing) |-> KV(PathJoin(pkg, listing[i].path), listing[i].bytes)]
updateFilesKVs(pkg, version, listing) ==
  [i \in 1..Len(listing) |->
     KV(PathJoin(PathJoin(pkg, version), listing[i].path), listing[i].bytes)]

updateFilesFiles(listing) ==
  [i \in 1..Len(listing) |->
     [Name |-> listing[i].path, SRI |-> CalculateFileSRI(listing[i].bytes)]]

\* updateVersion
updateVersion(pkg, version, files) ==
  KV(PathJoin(pkg, version), MarshalVersion(files))

\* readKV: "ok" with the stored bytes, or an error; a key that is not
\* stored gives the key-not-found error
ReadResults(key) ==
  IF key \in DOMAIN store THEN {"ok", "error"} ELSE {"notfound", "error"}

\* the list written by updateRoot / updatePackage: any read error is taken
\* as "key not found" and the list starts over with the one new element
ListAfterReadStartsEmpty(result, inserted, s) ==
  IF result # "ok" THEN <<>> ELSE View(inserted)
ListAfterRead(result, inserted, s) ==
  IF result # "ok" THEN <<s>> ELSE View(inserted)

\* updatePackage / updateRoot: read the document under `key`, add s, and
\* append the KV to write
updateList(p, key, tag, s, next) ==
  \E result \in ReadResults(key) :
    /\ readLog' = [readLog EXCEPT ![p] = Append(@, [key |-> key, result |-> result])]
    /\ IF result = "ok"
       THEN \E spare \in 0..MaxSpare :
              LET sl == MakeSlice(UnmarshalStrings(tag, store[key]), spare)
              IN /\ InsertCall(sl, s)
                 /\ kvs' = [kvs EXCEPT ![p] =
                      Append(@, KV(key, MarshalStrings(tag,
                        ListAfterRead(result, insertToSortedListIfNotPresent(sl, s).res, s))))]
       ELSE /\ kvs' = [kvs EXCEPT ![p] =
                 Append(@, KV(key, MarshalStrings(tag, ListAfterRead(result, NoSlice, s))))]
            /\ UNCHANGED <<sorted, retained, arg, before>>
    /\ pc' = [pc EXCEPT ![p] = next]
    /\ UNCHANGED <<cfg, store, job, bulkWrites, sent, steps>>
    /\ UNCHANGED <<aggVars, poolVars, cliVars>>

Ver100 == <<49, 46, 48, 46, 48>>
Ver110 == <<49, 46, 49, 46, 48>>
FileA == <<97, 46, 106, 115>>
FileB == <<98, 47, 99, 46, 106, 115>>

Pkgs == {Bar, Foo}
Versions == {Ver100, Ver110}

\* what util.ListFilesInVersion and ioutil.ReadFile may give for a version
Listings ==
  { <<[path |-> FileA, bytes |-> Bytes(2)]>>,
    <<[path |-> FileA, bytes |-> Bytes(3)], [path |-> FileB, bytes |-> Bytes(5)]>> }

\* the ceilings of the ingestion runs: every document of the model fits
IngestCfg == [MaxFileSize |-> 72, maxBulkPayload |-> 100]

\* insertVersionToKV, updateKV up to updateVersion (lines 358-360): the
\* file KVs and the Version KV; nothing is read from the store yet
StartIngest(p) ==
  /\ pc[p] \in {"idle", "done", "panicked"}
  /\ steps < MaxIngest
  /\ \E pkg \in Pkgs, version \in Versions, listing \in Listings :
       /\ job' = [job EXCEPT ![p] = [pkg |-> pkg, version |-> version, listing |-> listing]]
       /\ kvs' = [kvs EXCEPT ![p] =
            Append(updateFilesKVs(pkg, version, listing),
                   updateVersion(pkg, version, updateFilesFiles(listing)))]
  /\ pc' = [pc EXCEPT ![p] = "updatePackage"]
  /\ bulkWrites' = [bulkWrites EXCEPT ![p] = <<>>]
  /\ sent' = [sent EXCEPT ![p] = <<>>]
  /\ readLog' = [readLog EXCEPT ![p] = <<>>]
  /\ steps' = steps + 1
  /\ UNCHANGED <<cfg, store, sorted, retained, arg, before>>
  /\ UNCHANGED <<aggVars, poolVars, cliVars>>

\* line 361
updatePackage(p) ==
  /\ pc[p] = "updatePackage"
  /\ updateList(p, job[p].pkg, TagVersions, job[p].version, "updateRoot")

\* line 362; line 365 follows
updateRoot(p) ==
  /\ pc[p] = "updateRoot"
  /\ updateList(p, rootKey, TagPackages, job[p].pkg, "encode")

Init ==
  /\ cfg = IngestCfg
  /\ store = EmptyStore
  /\ pc = [p \in Procs |-> "idle"]
  /\ job = [p \in Procs |-> <<>>]
  /\ kvs = [p \in Procs |-> <<>>]
  /\ bulkWrites = [p \in Procs |-> <<>>]
  /\ sent = [p \in Procs |-> <<>>]
  /\ readLog = [p \in Procs |-> <<>>]
  /\ sorted = NoSlice
  /\ retained = NoSlice
  /\ arg = <<>>
  /\ before = <<>>
  /\ steps = 0
  /\ AggIdle /\ PoolIdle /\ CliIdle

\* sequential ingestions: one process
Next ==
  \/ StartIngest(1)
  \/ updatePackage(1)
  \/ updateRoot(1)
  \/ Encode(1)
  \/ WriteBulk(1)

Spec == Init /\ [][Next]_vars

----------------------------------------------------------------------------
(* Properties of the Root and Package documents (Spec).                    *)

\* the Root document and the stored Package documents, as lists
StoredLists ==
  (IF rootKey \in DOMAIN store
   THEN {UnmarshalStrings(TagPackages, store[rootKey])} ELSE {})
  \cup {UnmarshalStrings(TagVersions, store[pkg]) : pkg \in Pkgs \cap DOMAIN store}

\* C8: an insert call returns its argument unchanged when the value is in it,
\* and otherwise the strictly ascending sequence of the argument's elements
\* plus the value; every stored Root and Package document is strictly
\* ascending (so duplicate free) after any sequence of ingestions.
C8_InsertKeepsListsAscending ==
  /\ CallRecorded =>
       IF arg \in Elems(before)
       THEN sorted = [arr |-> sorted.arr, len |-> Len(before)]
            /\ View(sorted) = before
       ELSE /\ sorted.len = Len(before) + 1
            /\ StrictlyAscending(View(sorted))
            /\ Elems(View(sorted)) = Elems(before) \cup {arg}
  /\ \A a \in StoredLists : StrictlyAscending(a) /\ a # <<>>

\* the spec's scenario: the store holds the Root [bar, foo] (foo, then bar,
\* ingested) and the third ingestion inserts foo again
C8_Witness ==
  /\ steps = 3
  /\ pc[1] = "encode"
  /\ \A i \in 1..Len(readLog[1]) : readLog[1][i].result = "ok"
  /\ store[rootKey] = MarshalStrings(TagPackages, <<Bar, Foo>>)
  /\ arg = Foo
  /\ before = <<Bar, Foo>>
  /\ View(sorted) = <<Bar, Foo>>
  /\ kvs[1][Len(kvs[1])] = KV(rootKey, MarshalStrings(TagPackages, <<Bar, Foo>>))

\* C10: a read of the Package or Root document that fails with an error
\* other than key-not-found aborts the ingestion before any write is
\* attempted.
C10_ReadErrorAborts ==
  (\E i \in 1..Len(readLog[1]) : readLog[1][i].result = "error") =>
    /\ sent[1] = <<>>
    /\ pc[1] \notin {"write", "done"}

----------------------------------------------------------------------------
(* Properties of updateKV (Spec).                                          *)

\* updateKV has built all its KVs (updateRoot is done)
Handed == pc[1] \in {"encode", "write", "done", "panicked"}

\* the strings of a Version document: "name", <name>, "sri", <sri> per file
VersionStrings(bytes) == ScanStrings(bytes, Len(TagFiles) + 5, FALSE, <<>>, <<>>)

\* a Version document lists exactly the files of `listing`, in its order
ListsFilesOf(bytes, listing) ==
  LET strs == VersionStrings(bytes)
  IN /\ Len(strs) = 4 * Len(listing)
     /\ \A i \in 1..Len(listing) :
          /\ strs[4 * i - 3] = TagName
          /\ strs[4 * i - 2] = listing[i].path
          /\ strs[4 * i - 1] = TagSri
          /\ strs[4 * i] = CalculateFileSRI(listing[i].bytes)

\* C11: an ingestion of a version with n listed files hands n+3 items to the
\* batcher in one call: the n files under <package>/<version>/<path> with
\* their raw bytes, the Version item under <package>/<version> listing the n
\* files in listing order (whatever the store held for the version), the
\* Package item under <package> and the Root item under "/".
C11_ItemsOfOneIngestion ==
  Handed =>
    LET j == job[1]
        n == Len(j.listing)
        base == j.pkg \o <<47>> \o j.version
    IN /\ Len(kvs[1]) = n + 3
       /\ \A i \in 1..n :
            /\ kvs[1][i].Key = base \o <<47>> \o j.listing[i].path
            /\ kvs[1][i].Value = j.listing[i].bytes
       /\ kvs[1][n + 1].Key = base
       /\ ListsFilesOf(kvs[1][n + 1].Value, j.listing)
       /\ kvs[1][n + 2].Key = j.pkg
       /\ kvs[1][n + 3].Key = rootKey
       /\ pc[1] # "encode" => Len(Flatten(bulkWrites[1])) = n + 3
       /\ pc[1] = "done" => ListsFilesOf(store[base], j.listing)

\* a version ingested with two files is ingested again with one
C11_Witness ==
  /\ pc[1] = "done"
  /\ steps = 2
  /\ Len(job[1].listing) = 1
  /\ (job[1].pkg \o <<47>> \o job[1].version \o <<47>> \o FileB) \in DOMAIN store

----------------------------------------------------------------------------
(* The aggregated metadata of a package (kv package, lines 18-91).         *)
(* A packages.Package is a record [Name, Description, Version, Assets];    *)
(* Description stands for the descriptor fields the aggregator never       *)
(* touches.  An asset is a record [Version, Files].                        *)

TagDescription == <<100, 101, 115, 99, 114, 105, 112, 116, 105, 111, 110>>
TagVersion == <<118, 101, 114, 115, 105, 111, 110>>
TagAssets == <<97, 115, 115, 101, 116, 115>>

\* "tag":value
JSONMember(tag, value) == JSONString(tag) \o <<58>> \o value

JSONObject(members) == <<123>> \o JoinComma(members) \o <<125>>

MarshalAsset(a) ==
  JSONObject(<<JSONMember(TagVersion, JSONString(a.Version)),
               JSONMember(TagFiles,
                 JSONArray([i \in 1..Len(a.Files) |-> JSONString(a.Files[i])]))>>)

\* p.Marshal(): the JSON text of the document
Marshal(p) ==
  JSONObject(<<JSONMember(TagName, JSONString(p.Name)),
               JSONMember(TagDescription, JSONString(p.Description)),
               JSONMember(TagVersion, JSONString(p.Version)),
               JSONMember(TagAssets,
                 JSONArray([i \in 1..Len(p.Assets) |-> MarshalAsset(p.Assets[i])]))>>)

\* the position after the JSON string that starts (with its quote) at i
RECURSIVE StringEnd(_, _)
StringEnd(bytes, i) == IF bytes[i + 1] = 34 THEN i + 2 ELSE StringEnd(bytes, i + 1)

\* A JSON text is parsed into: a string as its bytes, an array as the
\* sequence of its elements, an object as the sequence of its members
\* [k, v].  Each parser gives [v, next]: the value and the position after it.
RECURSIVE ParseValue(_, _)
RECURSIVE ParseArray(_, _, _)
RECURSIVE ParseObject(_, _, _)
ParseValue(bytes, i) ==
  IF bytes[i] = 34
  THEN LET e == StringEnd(bytes, i)
       IN [v |-> SubSeq(bytes, i + 1, e - 2), next |-> e]
  ELSE IF bytes[i] = 91
  THEN IF bytes[i + 1] = 93 THEN [v |-> <<>>, next |-> i + 2]
       ELSE ParseArray(bytes, i + 1, <<>>)
  ELSE IF bytes[i + 1] = 125 THEN [v |-> <<>>, next |-> i + 2]
       ELSE ParseObject(bytes, i + 1, <<>>)

ParseArray(bytes, i, acc) ==
  LET e == ParseValue(bytes, i)
  IN IF bytes[e.next] = 44
     THEN ParseArray(bytes, e.next + 1, Append(acc, e.v))
     ELSE [v |-> Append(acc, e.v), next |-> e.next + 1]

ParseObject(bytes, i, acc) ==
  LET k == ParseValue(bytes, i)
      e == ParseValue(bytes, k.next + 1)
      m == [k |-> k.v, v |-> e.v]
  IN IF bytes[e.next] = 44
     THEN ParseObject(bytes, e.next + 1, Append(acc, m))
     ELSE [v |-> Append(acc, m), next |-> e.next + 1]

\* the member of an object under a tag; the zero value when it has none
Member(obj, tag) ==
  IF \E i \in 1..Len(obj) : obj[i].k = tag
  THEN obj[CHOOSE i \in 1..Len(obj) : obj[i].k = tag].v
  ELSE <<>>

\* json.Unmarshal(text, &p) into a fresh packages.Package
Unmarshal(bytes) ==
  LET obj == ParseValue(bytes, 1).v
      as == Member(obj, TagAssets)
  IN [Name |-> Member(obj, TagName),
      Description |-> Member(obj, TagDescription),
      Version |-> Member(obj, TagVersion),
      Assets |-> [i \in 1..Len(as) |->
                    [Version |-> Member(as[i], TagVersion),
                     Files |-> Member(as[i], TagFiles)]]]

\* compress.Gzip9Bytes / compress.UnGzip: a lossless framing, here the
\* magic number of a gzip member in front of the text
GzipMagic == <<31, 139>>
Gzip9Bytes(bytes) == GzipMagic \o bytes
UnGzip(bytes) == SubSeq(bytes, Len(GzipMagic) + 1, Len(bytes))

\* (*Package).HasVersion: is there an asset of that version
HasVersion(p, version) == \E i \in 1..Len(p.Assets) : p.Assets[i].Version = version

\* (*Package).UpdateVersion: the asset of that version is replaced where it is
UpdateVersion(p, version, newAssets) ==
  [i \in 1..Len(p.Assets) |->
     IF p.Assets[i].Version = version THEN newAssets ELSE p.Assets[i]]

\* the outcome of a read: nil, KeyNotFoundError, or another error
NoError == "nil"
KeyNotFoundError == "notfound"
OtherError == "error"

\* kv.read on the aggregated namespace: a key that is not stored gives
\* KeyNotFoundError; any read may fail with another error
AggReadResults(key) ==
  IF key \in DOMAIN aggStore THEN {NoError, OtherError}
  ELSE {KeyNotFoundError, OtherError}

AbortsNever(err) == FALSE
\* lines 36-39: an error that is not KeyNotFoundError is returned at once
Aborts(err) == err \notin {NoError, KeyNotFoundError}

AssetsAfterKeepsOnNotFound(aggPkg, err, newVersion, newAssets) ==
  IF err = NoError /\ HasVersion(aggPkg, newVersion)
  THEN UpdateVersion(aggPkg, newVersion, newAssets)
  ELSE Append(aggPkg.Assets, newAssets)
AssetsAfterAlwaysAppends(aggPkg, err, newVersion, newAssets) ==
  IF err = KeyNotFoundError THEN <<newAssets>>
  ELSE Append(aggPkg.Assets, newAssets)
AssetsAfterPrepends(aggPkg, err, newVersion, newAssets) ==
  IF err = KeyNotFoundError THEN <<newAssets>>
  ELSE IF ~HasVersion(aggPkg, newVersion) THEN <<newAssets>> \o aggPkg.Assets
  ELSE UpdateVersion(aggPkg, newVersion, newAssets)
\* lines 27-51: aggPkg.Assets after the case analysis on the read's error
AssetsAfter(aggPkg, err, newVersion, newAssets) ==
  IF err = KeyNotFoundError THEN <<newAssets>>
  ELSE IF ~HasVersion(aggPkg, newVersion) THEN Append(aggPkg.Assets, newAssets)
  ELSE UpdateVersion(aggPkg, newVersion, newAssets)

\* line 52: found is set where the read gave no error
FoundAfter(err) == err = NoError

VersionAfterKeepsHighest(aggPkg, newVersion) ==
  IF StrLess(newVersion, aggPkg.Version) THEN aggPkg.Version ELSE newVersion
\* line 54: aggPkg.Version = &newVersion
VersionAfter(aggPkg, newVersion) == newVersion

NoPackage == [Name |-> <<>>, Description |-> <<>>, Version |-> <<>>, Assets |-> <<>>]
NoAsset == [Version |-> <<>>, Files |-> <<>>]

\* no UpdateAggregatedMetadata call made yet
NoCall ==
  [pc |-> "idle", calls |-> 0,
   pkg |-> NoPackage,       \* *pkg, the caller's descriptor as it is now
   pkg0 |-> NoPackage,      \* *pkg as it was when the call was made
   newVersion |-> <<>>, newAssets |-> NoAsset,
   aggPkg |-> NoPackage,    \* *aggPkg
   isNil |-> TRUE,          \* getAggregatedMetadata gave a nil document
   err |-> NoError,         \* the error of getAggregatedMetadata
   found |-> FALSE,
   wrote |-> FALSE,         \* writeAggregatedMetadata was called
   writes |-> <<>>,         \* the first value returned
   ret |-> NoError,         \* the error returned
   before |-> EmptyStore]   \* the namespace as it was when the call was made

\* number of UpdateAggregatedMetadata calls in one run of SpecAgg
MaxAggCalls == 3

Ver200 == <<50, 46, 48, 46, 48>>
AggVersions == {Ver100, Ver110, Ver200}
FileLists == {<<FileA>>, <<FileA, FileB>>}
DescOne == <<100, 49>>
DescTwo == <<100, 50>>

\* the descriptors a caller may hold for the package: read from its
\* package file, with or without assets of its own
Descriptors ==
  { [Name |-> Foo, Description |-> DescOne, Version |-> Ver100, Assets |-> <<>>],
    [Name |-> Foo, Description |-> DescTwo, Version |-> Ver200,
     Assets |-> <<[Version |-> Ver200, Files |-> <<FileB>>]>>] }

\* a call of UpdateAggregatedMetadata(api, ctx, pkg, newVersion, newAssets)
AggStart(p) ==
  /\ agg[p].pc \in {"idle", "returned"}
  /\ agg[p].calls < MaxAggCalls
  /\ \E pkg \in Descriptors, newVersion \in AggVersions, files \in FileLists :
       agg' = [agg EXCEPT ![p] =
                 [NoCall EXCEPT !.pc = "get", !.calls = agg[p].calls + 1,
                                !.pkg = pkg, !.pkg0 = pkg,
                                !.newVersion = newVersion,
                                !.newAssets = [Version |-> newVersion, Files |-> files],
                                !.before = aggStore]]
  /\ UNCHANGED <<aggStore, kvVars, poolVars, cliVars>>

\* line 20 and lines 60-72
getAggregatedMetadata(p) ==
  /\ agg[p].pc = "get"
  /\ \E err \in AggReadResults(agg[p].pkg.Name) :
       agg' = [agg EXCEPT ![p].pc = "merge",
                          ![p].err = err,
                          ![p].isNil = err # NoError,
                          ![p].aggPkg = IF err = NoError
                                        THEN Unmarshal(UnGzip(aggStore[agg[p].pkg.Name]))
                                        ELSE NoPackage]
  /\ UNCHANGED <<aggStore, kvVars, poolVars, cliVars>>

CallerPkgAfterCopy(isNil, pkg, merged) == pkg
\* lines 21-24: aggPkg = pkg makes aggPkg point to the caller's descriptor,
\* which then is the document that lines 33 and 54 assign to
CallerPkgAfter(isNil, pkg, merged) == IF isNil THEN merged ELSE pkg

\* lines 21-54: where the document read is nil, aggPkg is the caller's pkg
\* itself, and what is assigned to *aggPkg is assigned to *pkg
Merge(p) ==
  /\ agg[p].pc = "merge"
  /\ LET c == agg[p]
         aggPkg == IF c.isNil THEN c.pkg ELSE c.aggPkg
         merged == [aggPkg EXCEPT
                      !.Assets = AssetsAfter(aggPkg, c.err, c.newVersion, c.newAssets),
                      !.Version = VersionAfter(aggPkg, c.newVersion)]
     IN IF Aborts(c.err)
        THEN agg' = [agg EXCEPT ![p].pc = "returned", ![p].aggPkg = aggPkg,
                                ![p].found = FALSE, ![p].writes = <<>>,
                                ![p].ret = c.err]
        ELSE agg' = [agg EXCEPT ![p].pc = "write", ![p].aggPkg = merged,
                                ![p].pkg = CallerPkgAfter(c.isNil, c.pkg, merged),
                                ![p].found = FoundAfter(c.err)]
  /\ UNCHANGED <<aggStore, kvVars, poolVars, cliVars>>

\* lines 55-56 and 75-91: the document is marshalled, compressed and written
\* under the package's name in one bulk write, which may fail
writeAggregatedMetadata(p) ==
  /\ agg[p].pc = "write"
  /\ \E result \in {"ok", "error"} :
       /\ aggStore' = IF result = "ok"
                      THEN Put(aggStore, agg[p].aggPkg.Name,
                               Gzip9Bytes(Marshal(agg[p].aggPkg)))
                      ELSE aggStore
       /\ agg' = [agg EXCEPT ![p].pc = "returned", ![p].wrote = TRUE,
                             ![p].writes = IF result = "ok"
                                           THEN <<agg[p].aggPkg.Name>> ELSE <<>>,
                             ![p].ret = IF result = "ok" THEN NoError ELSE OtherError]
  /\ UNCHANGED <<kvVars, poolVars, cliVars>>

\* the KV writer at rest
KvIdle ==
  /\ cfg = IngestCfg
  /\ store = EmptyStore
  /\ pc = [p \in Procs |-> "idle"]
  /\ job = [p \in Procs |-> <<>>]
  /\ kvs = [p \in Procs |-> <<>>]
  /\ bulkWrites = [p \in Procs |-> <<>>]
  /\ sent = [p \in Procs |-> <<>>]
  /\ readLog = [p \in Procs |-> <<>>]
  /\ sorted = NoSlice
  /\ retained = NoSlice
  /\ arg = <<>>
  /\ before = <<>>
  /\ steps = 0

InitAgg ==
  /\ aggStore = EmptyStore
  /\ agg = [p \in Procs |-> NoCall]
  /\ KvIdle /\ PoolIdle /\ CliIdle

\* calls made one after the other by one process
NextAgg ==
  \/ AggStart(1)
  \/ getAggregatedMetadata(1)
  \/ Merge(1)
  \/ writeAggregatedMetadata(1)

SpecAgg == InitAgg /\ [][NextAgg]_vars

----------------------------------------------------------------------------
(* Properties of UpdateAggregatedMetadata (SpecAgg).                       *)

\* the aggregated document stored under a name in namespace st
StoredDoc(st, name) == Unmarshal(UnGzip(st[name]))

\* the call of process 1: the case analysis is done / the call has returned
Merged == agg[1].pc \in {"write", "returned"}
Returned == agg[1].pc = "returned"
\* the call has returned after a successful write
Written == Returned /\ agg[1].wrote /\ agg[1].ret = NoError

\* the document that was stored for the package when the call was made
Prior == StoredDoc(agg[1].before, agg[1].pkg0.Name)

\* the positions of the assets of a version
EntriesOf(assets, version) == {i \in 1..Len(assets) : assets[i].Version = version}

\* C12: where the read of the aggregated document gives key-not-found, the
\* call returns found = false and the document it writes is the caller's
\* base descriptor with assets = [newAssets]; found is true exactly when
\* the prior document was read without error.
C12_NotFoundStartsFromDescriptor ==
  Merged =>
    LET c == agg[1]
    IN /\ c.found <=> c.err = NoError
       /\ c.err = KeyNotFoundError =>
            /\ ~c.found
            /\ c.aggPkg.Name = c.pkg0.Name
            /\ c.aggPkg.Description = c.pkg0.Description
            /\ c.aggPkg.Assets = <<c.newAssets>>
            /\ Written =>
                 /\ StoredDoc(aggStore, c.pkg0.Name).Description = c.pkg0.Description
                 /\ StoredDoc(aggStore, c.pkg0.Name).Assets = <<c.newAssets>>

\* a descriptor with assets of its own, no aggregated document yet
C12_Witness ==
  /\ Written
  /\ agg[1].err = KeyNotFoundError
  /\ agg[1].pkg0.Assets # <<>>
  /\ agg[1].pkg0.Assets # <<agg[1].newAssets>>

\* C13: after any sequence of calls on a package, the assets of its document
\* hold at most one entry per version; a version ingested again is replaced
\* where it is, and after a successful call the one entry of newVersion is
\* the record of that call.
C13_OneEntryPerVersion ==
  /\ \A name \in DOMAIN aggStore :
       LET assets == StoredDoc(aggStore, name).Assets
       IN \A i, j \in 1..Len(assets) :
            assets[i].Version = assets[j].Version => i = j
  /\ Written =>
       LET c == agg[1]
           assets == StoredDoc(aggStore, c.pkg0.Name).Assets
       IN /\ Cardinality(EntriesOf(assets, c.newVersion)) = 1
          /\ \A i \in EntriesOf(assets, c.newVersion) : assets[i] = c.newAssets
          /\ (c.err = NoError /\ HasVersion(Prior, c.newVersion)) =>
               /\ Len(assets) = Len(Prior.Assets)
               /\ \A i \in 1..Len(assets) :
                    assets[i] = IF Prior.Assets[i].Version = c.newVersion
                                THEN c.newAssets ELSE Prior.Assets[i]

\* a version is ingested again with another record, among other versions
C13_Witness ==
  /\ Written
  /\ agg[1].err = NoError
  /\ Len(Prior.Assets) = 2
  /\ Prior.Assets[1].Version = agg[1].newVersion
  /\ Prior.Assets[1] # agg[1].newAssets

\* C14: where the prior document exists and has no entry of newVersion, the
\* resulting assets are the prior list with the new record appended at the
\* end, and found is true.
C14_NewVersionAppended ==
  (Merged /\ agg[1].err = NoError /\ ~HasVersion(Prior, agg[1].newVersion)) =>
    /\ agg[1].found
    /\ agg[1].aggPkg.Assets = Append(Prior.Assets, agg[1].newAssets)
    /\ Written =>
         StoredDoc(aggStore, agg[1].pkg0.Name).Assets
           = Append(Prior.Assets, agg[1].newAssets)

\* a third version is added to a document of two
C14_Witness ==
  /\ Written
  /\ agg[1].err = NoError
  /\ Len(Prior.Assets) = 2
  /\ ~HasVersion(Prior, agg[1].newVersion)

\* C15: in every case that leads to a write, the version field of the
\* document written is newVersion, also where the document holds a higher
\* version.
C15_VersionIsNewVersion ==
  /\ (Merged /\ ~Aborts(agg[1].err)) => agg[1].aggPkg.Version = agg[1].newVersion
  /\ Written => StoredDoc(aggStore, agg[1].pkg0.Name).Version = agg[1].newVersion

\* a lower version is ingested after a higher one
C15_Witness ==
  /\ Written
  /\ agg[1].err = NoError
  /\ StrLess(agg[1].newVersion, Prior.Version)
  /\ HasVersion(Prior, Prior.Version)

\* C16: where the read fails with an error that is not key-not-found, the
\* call returns that error with found = false and no written keys, no write
\* is attempted and the namespace is as it was.
C16_ReadErrorNoWrite ==
  (agg[1].pc \in {"write", "returned"} /\ agg[1].err = OtherError) =>
    /\ Returned
    /\ agg[1].ret = agg[1].err
    /\ ~agg[1].found
    /\ agg[1].writes = <<>>
    /\ ~agg[1].wrote
    /\ aggStore = agg[1].before

\* the read of a stored document fails
C16_Witness ==
  /\ Returned
  /\ agg[1].err = OtherError
  /\ agg[1].pkg0.Name \in DOMAIN aggStore

----------------------------------------------------------------------------
(* The worker pool of `generate` (src/cmd/packages/main.go, lines 50-78    *)
(* and 106-141).  Both channels are buffered with room for numJobs         *)
(* elements, so no send blocks; a receive blocks on an empty channel.  A   *)
(* job is the index of its package file; a result is the job's index, or   *)
(* nil for a file that could not be read.                                  *)

\* most package files found by the glob
MaxJobs == 3
\* most workers spawned (runtime.NumCPU()*10 in the code)
MaxWorkers == 2

nil == 0

\* the workers spawned, blocked on the jobs channel; main about to submit
StartPool(numJobs, numWorkers, failing) ==
  [pc |-> "submit",
   numJobs |-> numJobs,
   failing |-> failing,      \* the files ReadNonHumanJSONFile fails on
   submitted |-> 0,
   jobs |-> <<>>,            \* the jobs channel
   closed |-> FALSE,         \* close(jobs) was called
   results |-> <<>>,         \* the results channel
   worker |-> [w \in 1..numWorkers |-> [at |-> "range", f |-> nil]],
   i |-> 1,                  \* the collector's loop variable
   out |-> <<>>]

\* lines 125-127: jobs <- f
Submit ==
  /\ pool.pc = "submit"
  /\ pool.submitted < pool.numJobs
  /\ pool' = [pool EXCEPT !.submitted = @ + 1, !.jobs = Append(@, pool.submitted + 1)]
  /\ UNCHANGED <<kvVars, aggVars, cliVars>>

\* line 128: close(jobs)
Close ==
  /\ pool.pc = "submit"
  /\ pool.submitted = pool.numJobs
  /\ pool' = [pool EXCEPT !.closed = TRUE, !.pc = "collect"]
  /\ UNCHANGED <<kvVars, aggVars, cliVars>>

\* lines 132-136: one round of the collecting loop, res := <-results
Collect ==
  /\ pool.pc = "collect"
  /\ pool.i <= pool.numJobs
  /\ pool.results # <<>>
  /\ LET res == Head(pool.results)
     IN pool' = [pool EXCEPT !.results = Tail(@),
                             !.out = IF res # nil THEN Append(@, res) ELSE @,
                             !.i = @ + 1,
                             !.pc = IF pool.i = pool.numJobs THEN "done" ELSE "collect"]
  /\ UNCHANGED <<kvVars, aggVars, cliVars>>

\* line 51: for f := range jobs, a job is received
Take(w) ==
  /\ w \in DOMAIN pool.worker
  /\ pool.worker[w].at = "range"
  /\ pool.jobs # <<>>
  /\ pool' = [pool EXCEPT !.jobs = Tail(@),
                          !.worker[w] = [at |-> "read", f |-> Head(pool.jobs)]]
  /\ UNCHANGED <<kvVars, aggVars, cliVars>>

\* line 51: the channel is closed and drained, the loop and the worker end
ExitOnClose(w) ==
  /\ w \in DOMAIN pool.worker
  /\ pool.worker[w].at = "range"
  /\ pool.jobs = <<>>
  /\ pool.closed
  /\ pool' = [pool EXCEPT !.worker[w] = [at |-> "exited", f |-> nil]]
  /\ UNCHANGED <<kvVars, aggVars, cliVars>>

\* lines 56-60 and 76-77: after a failed job the worker returns, after
\* another it goes round the loop
WhereAfterJob(failed) == IF failed THEN "exited" ELSE "range"

\* lines 55-76: the file is read and one result is sent
Process(w) ==
  /\ w \in DOMAIN pool.worker
  /\ pool.worker[w].at = "read"
  /\ LET f == pool.worker[w].f
         failed == f \in pool.failing
     IN pool' = [pool EXCEPT
                   !.results = Append(@, IF failed THEN nil ELSE f),
                   !.worker[w] = [at |-> WhereAfterJob(failed), f |-> nil]]
  /\ UNCHANGED <<kvVars, aggVars, cliVars>>

Main == Submit \/ Close \/ Collect
Worker(w) == Take(w) \/ ExitOnClose(w) \/ Process(w)

InitPool ==
  /\ \E numJobs \in 1..MaxJobs, numWorkers \in 1..MaxWorkers :
       \E failing \in SUBSET (1..numJobs) :
         pool = StartPool(numJobs, numWorkers, failing)
  /\ KvIdle /\ AggIdle /\ CliIdle

NextPool == Main \/ \E w \in 1..MaxWorkers : Worker(w)

\* every goroutine that can run is run in the end
SpecPool ==
  /\ InitPool
  /\ [][NextPool]_vars
  /\ WF_vars(Main)
  /\ \A w \in 1..MaxWorkers : WF_vars(Worker(w))

\* C17: for any number of jobs, any number of workers (at least one) and
\* any set of failing jobs, the collector that waits for numJobs results
\* comes to its end.
C17_CollectorTerminates == <>(pool.pc = "done")

----------------------------------------------------------------------------
(* SpecConc: two processes, each ingesting one version of a package of its *)
(* own (process 1 of foo, process 2 of bar), with no read or write         *)
(* failing.  The steps of the two interleave freely: the store serializes  *)
(* the single reads and bulk writes, nothing more.                         *)

PkgOf(p) == IF p = 1 THEN Foo ELSE Bar

\* the last read / the last bulk write of a process did not fail
ReadSucceeded(log) == log[Len(log)].result # "error"
WriteSucceeded(calls) == calls[Len(calls)].result = "ok"

StartConc(p) ==
  /\ pc[p] = "idle"
  /\ StartIngest(p)
  /\ job'[p].pkg = PkgOf(p)

updatePackageConc(p) == updatePackage(p) /\ ReadSucceeded(readLog'[p])

updateRootConc(p) == updateRoot(p) /\ ReadSucceeded(readLog'[p])

WriteBulkConc(p) == WriteBulk(p) /\ WriteSucceeded(sent'[p])

NextConc ==
  \E p \in Procs :
    \/ StartConc(p)
    \/ updatePackageConc(p)
    \/ updateRootConc(p)
    \/ Encode(p)
    \/ WriteBulkConc(p)

SpecConc == Init /\ [][NextConc]_vars

\* the list an ingestion running alone writes under `key`
ListAlone(st, key, tag, s) ==
  IF key \in DOMAIN st
  THEN View(insertToSortedListIfNotPresent(
              MakeSlice(UnmarshalStrings(tag, st[key]), 0), s).res)
  ELSE <<s>>

\* the store after the ingestion j has run alone, from reads to writes
IngestAlone(st, j) ==
  LET items == updateFilesKVs(j.pkg, j.version, j.listing)
               \o <<updateVersion(j.pkg, j.version, updateFilesFiles(j.listing)),
                    KV(j.pkg, MarshalStrings(TagVersions,
                         ListAlone(st, j.pkg, TagVersions, j.version))),
                    KV(rootKey, MarshalStrings(TagPackages,
                         ListAlone(st, rootKey, TagPackages, j.pkg)))>>
  IN WriteWorkersKVBulk(st, [i \in 1..Len(items) |-> WorkersKVPair(items[i])])

BothDone == \A p \in Procs : pc[p] = "done"

\* C18: two ingestions of distinct packages running concurrently, with no
\* failure: however their reads and writes interleave, the store ends as
\* after one of the two serial orders, and the Root document holds both
\* package names.
C18_ConcurrentIsSerial ==
  BothDone =>
    /\ store \in {IngestAlone(IngestAlone(EmptyStore, job[1]), job[2]),
                  IngestAlone(IngestAlone(EmptyStore, job[2]), job[1])}
    /\ UnmarshalStrings(TagPackages, store[rootKey]) = <<Bar, Foo>>

----------------------------------------------------------------------------
(* The validate-human subcommand (src/cmd/packages/main.go, lines 150-155  *)
(* and 161-186).  What packages.ReadHumanJSONFile gives for a file is a    *)
(* record [kind, errors, msg]: no error, an InvalidSchemaError with the    *)
(* result errors of the schema validation, or another error.               *)

AutoupdateRequired == "(root): autoupdate is required"
RepositoryRequired == "(root): repository is required"
NameRequired == "(root): name is required"
NoSuchFile == "open: no such file or directory"

\* most files named on the command line
MaxArgs == 2
\* most result errors of one schema validation
MaxSchemaErrors == 2

SchemaErrors == {AutoupdateRequired, RepositoryRequired, NameRequired}

\* what ReadHumanJSONFile may give: the other errors include one whose text
\* is that of a schema error
ReadErrs ==
  {[kind |-> "nil", errors |-> <<>>, msg |-> ""]}
  \cup {[kind |-> "schema", errors |-> e, msg |-> ""] :
          e \in UNION {[1..n -> SchemaErrors] : n \in 0..MaxSchemaErrors}}
  \cup {[kind |-> "other", errors |-> <<>>, msg |-> m] :
          m \in {NoSuchFile, AutoupdateRequired}}

RECURSIVE Join(_, _)
\* strings.Join
Join(strs, sep) ==
  IF strs = <<>> THEN ""
  ELSE IF Len(strs) = 1 THEN strs[1]
  ELSE strs[1] \o sep \o Join(Tail(strs), sep)

SkippedWhateverTheFlags(missingAuto, missingRepo, s) ==
  s \in {AutoupdateRequired, RepositoryRequired}
\* lines 171-176: the result errors the loop passes over
Skipped(missingAuto, missingRepo, s) ==
  \/ missingAuto /\ s = AutoupdateRequired
  \/ missingRepo /\ s = RepositoryRequired

RECURSIVE SchemaErrs(_, _, _)
\* lines 170-178: errs after the loop over the result errors
SchemaErrs(errors, missingAuto, missingRepo) ==
  IF errors = <<>> THEN <<>>
  ELSE (IF Skipped(missingAuto, missingRepo, Head(errors)) THEN <<>>
        ELSE <<Head(errors)>>)
       \o SchemaErrs(Tail(errors), missingAuto, missingRepo)

\* lines 164-182: errs
Errs(readerr, missingAuto, missingRepo) ==
  IF readerr.kind = "nil" THEN <<>>
  ELSE IF readerr.kind = "schema"
  THEN SchemaErrs(readerr.errors, missingAuto, missingRepo)
  ELSE <<readerr.msg>>

\* lines 183-185: what validateHuman prints for a file, nothing or one line
validateHuman(readerr, missingAuto, missingRepo) ==
  LET errs == Errs(readerr, missingAuto, missingRepo)
  IN IF Len(errs) > 0 THEN <<Join(errs, ",") \o "\n">> ELSE <<>>

\* lines 152-154: one round of the loop over the files named
ValidateNext ==
  /\ cli.cmd = "validate-human"
  /\ Len(cli.out) < Len(cli.args)
  /\ cli' = [cli EXCEPT !.out = Append(@,
               validateHuman(cli.args[Len(cli.out) + 1], cli.missingAuto, cli.missingRepo))]
  /\ UNCHANGED <<kvVars, aggVars, poolVars>>

\* lines 82-85 and 150: the flags are parsed, the subcommand is chosen
InitCli ==
  /\ \E missingAuto \in BOOLEAN, missingRepo \in BOOLEAN :
       \E args \in UNION {[1..n -> ReadErrs] : n \in 0..MaxArgs} :
         cli = [cmd |-> "validate-human", missingAuto |-> missingAuto,
                missingRepo |-> missingRepo,
                args |-> args,   \* per file named, what reading it gives
                out |-> <<>>]    \* per file validated, the lines printed
  /\ KvIdle /\ AggIdle /\ PoolIdle

NextCli == ValidateNext

SpecCli == InitCli /\ [][NextCli]_vars

\* the error texts of a file that no flag set lets pass over
Remaining(readerr) ==
  IF readerr.kind = "schema"
  THEN {s \in {readerr.errors[i] : i \in 1..Len(readerr.errors)} :
          /\ s = AutoupdateRequired => ~cli.missingAuto
          /\ s = RepositoryRequired => ~cli.missingRepo}
  ELSE IF readerr.kind = "other" THEN {readerr.msg} ELSE {}

\* C20: validate-human prints nothing for a file exactly when no error
\* remains after filtering: the schema error "autoupdate is required" is
\* passed over only with -missing-auto, "repository is required" only with
\* -missing-repo, any other schema or read error is reported, and what is
\* printed for a file depends on that file and the flags alone.
C20_SilentIffNoErrorRemains ==
  \A k \in 1..Len(cli.out) :
    /\ cli.out[k] = <<>> <=> Remaining(cli.args[k]) = {}
    /\ Len(cli.out[k]) <= 1
    /\ \A j \in 1..Len(cli.out) : cli.args[j] = cli.args[k] => cli.out[j] = cli.out[k]

\* -missing-auto alone: a file with both "required" errors is reported for
\* the repository only, after a file that lacks autoupdate alone passed
C20_Witness ==
  /\ cli.missingAuto /\ ~cli.missingRepo
  /\ Len(cli.out) = 2
  /\ cli.args[1] = [kind |-> "schema", errors |-> <<AutoupdateRequired>>, msg |-> ""]
  /\ cli.out[1] = <<>>
  /\ cli.args[2] = [kind |-> "schema",
                    errors |-> <<AutoupdateRequired, RepositoryRequired>>, msg |-> ""]
  /\ cli.out[2] = <<"(root): repository is required\n">>

----------------------------------------------------------------------------
(* SpecRace: two processes ingest two different versions of one package,   *)
(* foo, at the same time: each runs updateKV once and calls                *)
(* UpdateAggregatedMetadata once, with no read or write failing.  The      *)
(* stores start empty or as left by an earlier ingestion of a third        *)
(* version.                                                                *)

VersionOf(p) == IF p = 1 THEN Ver100 ELSE Ver110

\* the earlier ingestion
EarlierJob == [pkg |-> Foo, version |-> Ver200,
               listing |-> <<[path |-> FileA, bytes |-> Bytes(2)]>>]
EarlierDoc == [Name |-> Foo, Description |-> DescOne, Version |-> Ver200,
               Assets |-> <<[Version |-> Ver200, Files |-> <<FileA>>]>>]

StartRace(p) ==
  /\ pc[p] = "idle"
  /\ StartIngest(p)
  /\ job'[p].pkg = Foo
  /\ job'[p].version = VersionOf(p)
  /\ Len(job'[p].listing) = 1

AggStartRace(p) ==
  /\ agg[p].pc = "idle"
  /\ AggStart(p)
  /\ agg'[p].newVersion = VersionOf(p)
  /\ agg'[p].pkg.Assets = <<>>
  /\ agg'[p].newAssets.Files = <<FileA>>

getAggregatedMetadataRace(p) ==
  getAggregatedMetadata(p) /\ agg'[p].err # OtherError

writeAggregatedMetadataRace(p) ==
  writeAggregatedMetadata(p) /\ agg'[p].ret = NoError

InitRace ==
  /\ \E earlier \in BOOLEAN :
       /\ store = IF earlier THEN IngestAlone(EmptyStore, EarlierJob) ELSE EmptyStore
       /\ aggStore = IF earlier THEN Put(EmptyStore, Foo, Gzip9Bytes(Marshal(EarlierDoc)))
                     ELSE EmptyStore
  /\ agg = [p \in Procs |-> NoCall]
  /\ cfg = IngestCfg
  /\ pc = [p \in Procs |-> "idle"]
  /\ job = [p \in Procs |-> <<>>]
  /\ kvs = [p \in Procs |-> <<>>]
  /\ bulkWrites = [p \in Procs |-> <<>>]
  /\ sent = [p \in Procs |-> <<>>]
  /\ readLog = [p \in Procs |-> <<>>]
  /\ sorted = NoSlice
  /\ retained = NoSlice
  /\ arg = <<>>
  /\ before = <<>>
  /\ steps = 0
  /\ PoolIdle /\ CliIdle

NextRace ==
  \E p \in Procs :
    \/ StartRace(p)
    \/ updatePackageConc(p)
    \/ updateRootConc(p)
    \/ Encode(p)
    \/ WriteBulkConc(p)
    \/ AggStartRace(p)
    \/ getAggregatedMetadataRace(p)
    \/ Merge(p)
    \/ writeAggregatedMetadataRace(p)

SpecRace == InitRace /\ [][NextRace]_vars

----------------------------------------------------------------------------
(* Properties of concurrent ingestions of one package (SpecRace).          *)

Range(s) == {s[i] : i \in 1..Len(s)}

\* the versions in the Package document that process p has built
PackageListOf(p) ==
  Range(UnmarshalStrings(TagVersions, kvs[p][Len(job[p].listing) + 2].Value))

\* the versions in the aggregated document that process p has built
AssetVersionsOf(p) == {agg[p].aggPkg.Assets[i].Version : i \in 1..Len(agg[p].aggPkg.Assets)}

\* both ingestions are over, and each read the Package document before the
\* other wrote it: neither built a list with the other's version
PackageRaced ==
  /\ BothDone
  /\ VersionOf(2) \notin PackageListOf(1)
  /\ VersionOf(1) \notin PackageListOf(2)

\* the same for the two UpdateAggregatedMetadata calls
AggregatedRaced ==
  /\ \A p \in Procs : agg[p].pc = "returned"
  /\ VersionOf(2) \notin AssetVersionsOf(1)
  /\ VersionOf(1) \notin AssetVersionsOf(2)

StoredVersions == Range(UnmarshalStrings(TagVersions, store[Foo]))
StoredAssetVersions ==
  {StoredDoc(aggStore, Foo).Assets[i].Version :
     i \in 1..Len(StoredDoc(aggStore, Foo).Assets)}

\* C21: two ingestions of two versions of one package are not guarded
\* against each other: where both read the Package document (or the
\* aggregated document) before either writes it, the document stored in
\* the end holds one of the two versions and not the other.
C21_LostUpdate ==
  /\ PackageRaced =>
       Cardinality(StoredVersions \cap {VersionOf(1), VersionOf(2)}) = 1
  /\ AggregatedRaced =>
       Cardinality(StoredAssetVersions \cap {VersionOf(1), VersionOf(2)}) = 1

\* both documents have lost a version, next to the version ingested earlier
C21_Witness ==
  /\ PackageRaced
  /\ AggregatedRaced
  /\ StoredVersions = {VersionOf(1), Ver200}
  /\ StoredAssetVersions = {VersionOf(2), Ver200}

----------------------------------------------------------------------------
(* Empty batches (SpecBulk).                                               *)

\* C22: every batch that encodeAndWriteKVBulk submits holds at least one
\* item, whatever the input; for the empty input no bulk write call is made.
C22_NoEmptyBatch ==
  /\ \A k \in 1..Len(sent[1]) : sent[1][k].bulk # <<>>
  /\ kvs[1] = <<>> => sent[1] = <<>>

----------------------------------------------------------------------------
(* Growth of the Root and Package documents (Spec).                        *)

\* the names in the Root document (key "/") or in a Package document of st
NamesIn(st, key) ==
  IF key \in DOMAIN st
  THEN Range(UnmarshalStrings(IF key = rootKey THEN TagPackages ELSE TagVersions,
                              st[key]))
  ELSE {}

\* C23: over sequential ingestions in which reads of the Root or Package
\* document may fail with an error that is not key-not-found, the Root
\* document never loses a package name and a Package document never loses
\* a version: no step takes a name out of a stored document.
C23_ListsOnlyGrow ==
  [][\A key \in {rootKey} \cup Pkgs : NamesIn(store, key) \subseteq NamesIn(store', key)]_vars

----------------------------------------------------------------------------
(* The caller's descriptor (SpecAgg).                                      *)

\* C24: UpdateAggregatedMetadata leaves the caller's pkg as it was where a
\* prior aggregated document exists or the read fails with an error that is
\* not key-not-found; in the key-not-found case the caller's pkg is itself
\* the document modified: its Assets become [newAssets] and its Version
\* newVersion, the rest stays.
C24_CallerDescriptor ==
  LET c == agg[1]
  IN /\ c.pc \in {"get", "merge"} => c.pkg = c.pkg0
     /\ Merged =>
          /\ c.err \in {NoError, OtherError} => c.pkg = c.pkg0
          /\ c.err = KeyNotFoundError =>
               /\ c.pkg = [c.pkg0 EXCEPT !.Assets = <<c.newAssets>>,
                                         !.Version = c.newVersion]
               /\ c.pkg = c.aggPkg

\* a descriptor with assets of its own, changed by a call that found no
\* document
C24_Witness ==
  /\ Returned
  /\ agg[1].err = KeyNotFoundError
  /\ agg[1].pkg0.Assets # <<>>
  /\ agg[1].pkg # agg[1].pkg0
  /\ agg[1].pkg.Description = agg[1].pkg0.Description

============================================================================
